---------------------------- MODULE Spec2Model ----------------------------
(***************************************************************************)
(* A model of panairwrapper/filehandling.py.                               *)
(*                                                                         *)
(*   InputFile    the ordered deck of input blocks, its block builders and *)
(*                write_inputfile;                                         *)
(*   OutputFiles  _get_block, check_successful, parse_agps, generate_vtk.  *)
(*                                                                         *)
(* Text is modelled character by character: a Python str is a sequence of  *)
(* one-character strings, "\n" being the newline.  A float is modelled by  *)
(* its decimal expansion (sign, integer part, fractional digits).          *)
(***************************************************************************)
EXTENDS Integers, Sequences, FiniteSets, TLC

VARIABLES
    input_dict,   \* InputFile._input_dict: the [name, text] in key order
    outfile,      \* the characters written by the last write_inputfile
    call,         \* the last InputFile method called, its arguments and outcome
    inserted,     \* the set of keys the builder calls have assigned so far
    ncalls,       \* number of InputFile methods called so far
    arg,          \* argument or file content of the encoder / OutputFiles call
    ret,          \* its outcome: a value or a raised exception
    pc            \* "ready" before that call, "done" after it

vars == <<input_dict, outfile, call, inserted, ncalls, arg, ret, pc>>

deckVars == <<input_dict, outfile, call, inserted, ncalls>>

funVars == <<arg, ret, pc>>

-----------------------------------------------------------------------------
(* Bounds of the model.                                                    *)

\* longest run of fractional digits of a modelled float
MaxFracLen == 9

\* longest list of values given to _format_inputline
MaxVals == 2

-----------------------------------------------------------------------------
(* Characters and strings.                                                 *)

DigitChar == <<"0", "1", "2", "3", "4", "5", "6", "7", "8", "9">>

Spaces(n) == [i \in 1..n |-> " "]

\* the characters of a sequence of decimal digits
Chars(ds) == [i \in 1..Len(ds) |-> DigitChar[ds[i] + 1]]

RECURSIVE IntDigits(_)
\* the decimal digits of a natural number, most significant first
IntDigits(n) == IF n < 10 THEN <<n>> ELSE Append(IntDigits(n \div 10), n % 10)

\* the decimal text of an integer
IntStr(n) ==
    IF n < 0 THEN <<"-">> \o Chars(IntDigits(-n)) ELSE Chars(IntDigits(n))

\* '{0:<10}'-style left justification: pads, never truncates
ljust(s, width) == IF Len(s) >= width THEN s ELSE s \o Spaces(width - Len(s))

-----------------------------------------------------------------------------
(* Floats: [neg, ip, fr] stands for (-1)^neg * (ip + 0.fr), fr a sequence  *)
(* of decimal digits without trailing zero.  -0.0 is [TRUE, 0, <<>>].      *)

\* a Python int
PyInt(n) == [int |-> n]

IsInt(number) == "int" \in DOMAIN number

Float(neg, ip, fr) == [neg |-> neg, ip |-> ip, fr |-> fr]

\* float(number): an int is converted, a float is itself
float(number) ==
    IF IsInt(number)
    THEN [neg |-> number.int < 0,
          ip  |-> IF number.int < 0 THEN -number.int ELSE number.int,
          fr  |-> <<>>]
    ELSE number

\* int(number): truncation toward zero
int(number) ==
    IF IsInt(number) THEN number.int
    ELSE IF number.neg THEN -number.ip ELSE number.ip

Sign(x) == IF x.neg THEN <<"-">> ELSE <<>>

\* str(x) of a float x with 1e-4 <= |x| < 1e16 or x = 0: the shortest
\* decimal that reads back as x, with at least one fractional digit
float_str(x) ==
    Sign(x) \o Chars(IntDigits(x.ip)) \o <<".">>
            \o (IF x.fr = <<>> THEN <<"0">> ELSE Chars(x.fr))

\* str(number) of an int or a float
str(number) == IF IsInt(number) THEN IntStr(number.int) ELSE float_str(number)

RECURSIVE Incr(_)
\* a sequence of decimal digits plus one (the carry may add a digit)
Incr(ds) ==
    IF ds = <<>> THEN <<1>>
    ELSE LET n == Len(ds) IN
         IF ds[n] < 9 THEN [ds EXCEPT ![n] = ds[n] + 1]
         ELSE Append(Incr(SubSeq(ds, 1, n - 1)), 0)

\* format(x, '.<p>f'), p >= 1: x rounded to p fractional digits (to nearest;
\* an exact tie goes to the even digit), the sign kept even when the
\* rounded value is zero
format_f(x, p) ==
    LET kept == [i \in 1..p |-> IF i <= Len(x.fr) THEN x.fr[i] ELSE 0]
        up   == /\ Len(x.fr) > p
                /\ \/ x.fr[p + 1] > 5
                   \/ /\ x.fr[p + 1] = 5
                      /\ (Len(x.fr) > p + 1 \/ kept[p] % 2 = 1)
        digs == IntDigits(x.ip) \o kept
        rnd  == IF up THEN Incr(digs) ELSE digs
        nint == Len(rnd) - p
    IN  Sign(x) \o Chars(SubSeq(rnd, 1, nint)) \o <<".">>
                \o Chars(SubSeq(rnd, nint + 1, Len(rnd)))

-----------------------------------------------------------------------------
(* InputFile: the field encoders.                                          *)

\* an exception propagating out of a call
Raise(exc) == [ok |-> FALSE, v |-> exc]

\* a normal return
Return(v) == [ok |-> TRUE, v |-> v]

_format_opt(number) ==
    LET fnumber == float(number) IN ljust(float_str(fnumber), 10)

_format_str_opt(string) == ljust(string, 10)

\* the precision without the check of the magnitude
_fixed_width_precision_unchecked(number) ==
    LET p1 == IF number.neg THEN 7 ELSE 8
        p2 == IF number.ip >= 10 THEN p1 - 1 ELSE p1
        p3 == IF number.ip >= 100 THEN p2 - 1 ELSE p2
        p4 == IF number.ip >= 1000 THEN p3 - 1 ELSE p3
        p5 == IF number.ip >= 10000 THEN p4 - 1 ELSE p4
    IN  Return(p5)

_fixed_width_precision(number) ==
    LET p0 == 8
        p1 == IF number.neg THEN p0 - 1 ELSE p0
        p2 == IF number.ip >= 10 THEN p1 - 1 ELSE p1
        p3 == IF number.ip >= 100 THEN p2 - 1 ELSE p2
        p4 == IF number.ip >= 1000 THEN p3 - 1 ELSE p3
        p5 == IF number.ip >= 10000 THEN p4 - 1 ELSE p4
    IN  IF number.ip >= 100000 THEN Raise("RuntimeError") ELSE Return(p5)

\* one '{:<10.<precision>f}' field
format_field(number, precision) == ljust(format_f(number, precision), 10)

_format_coord(coordinates) ==
    LET precision == [i \in 1..3 |-> _fixed_width_precision(coordinates[i])]
    IN  IF \E i \in 1..3 : ~precision[i].ok
        THEN Raise("RuntimeError")
        ELSE Return(format_field(coordinates[1], precision[1].v)
                    \o format_field(coordinates[2], precision[2].v)
                    \o format_field(coordinates[3], precision[3].v))

RECURSIVE _format_header(_)
\* the first label gets "=" in front; every label is padded to 10
\* characters; one newline ends the line
_format_header(labels) ==
    LET fields[i \in 0..Len(labels)] ==
            IF i = 0 THEN <<>>
            ELSE fields[i - 1] \o _format_str_opt(
                     IF i = 1 THEN <<"=">> \o labels[i] ELSE labels[i])
    IN  fields[Len(labels)] \o <<"\n">>

_format_inputline(values) ==
    LET inputs[i \in 0..Len(values)] ==
            IF i = 0 THEN <<>> ELSE inputs[i - 1] \o _format_opt(values[i])
    IN  inputs[Len(values)] \o <<"\n">>

-----------------------------------------------------------------------------
(* InputFile: the ordered deck.                                            *)

Names(d) == [i \in 1..Len(d) |-> d[i].name]

HasKey(d, key) == \E i \in 1..Len(d) : d[i].name = key

KeyIndex(d, key) == CHOOSE i \in 1..Len(d) : d[i].name = key

\* an assignment that moves a known key to the end
DictSet_toend(d, key, text) ==
    Append(SelectSeq(d, LAMBDA e : e.name # key), [name |-> key, text |-> text])

\* d[key] = text on an OrderedDict: a known key keeps its place, a new key
\* goes to the end
DictSet(d, key, text) ==
    IF HasKey(d, key)
    THEN [d EXCEPT ![KeyIndex(d, key)].text = text]
    ELSE Append(d, [name |-> key, text |-> text])

\* r + s, unless building r raised
Add(r, s) == IF r.ok THEN Return(r.v \o s) ELSE r

\* r + t for a t that may have raised after r was built
AddR(r, t) == IF ~r.ok THEN r ELSE IF ~t.ok THEN t ELSE Return(r.v \o t.v)

\* The end of every block builder: self._input_dict[key] = text, which is
\* not reached when rendering the text raised.
SetBlock(op, args, key, text) ==
    /\ input_dict' = IF text.ok THEN DictSet(input_dict, key, text.v)
                     ELSE input_dict
    /\ inserted' = IF text.ok THEN inserted \cup {key} ELSE inserted
    /\ call' = [op |-> op, args |-> args, raised |-> ~text.ok, key |-> key,
                text |-> IF text.ok THEN text.v ELSE <<>>]
    /\ ncalls' = ncalls + 1
    /\ UNCHANGED <<outfile, funVars>>

-----------------------------------------------------------------------------
(* InputFile: the block builders.                                          *)

title(title_, info) ==
    SetBlock("title", <<title_, info>>, <<"T", "I", "T", "L", "E">>,
             Return(title_ \o <<"\n">> \o info \o <<"\n">>))

datacheck(ndtchk) ==
    LET header == _format_header(<<<<"n", "d", "t", "c", "h", "k">>>>)
        option == _format_inputline(<<ndtchk>>)
    IN  SetBlock("datacheck", <<ndtchk>>, <<"D", "A", "T", "A", "C", "H",
            "E", "C", "K">>,
                 Return(header \o option))

symmetric(xzpln, xypln) ==
    LET header  == _format_header(<<<<"x", "z", "p", "l", "n">>, <<"x", "y",
            "p", "l", "n">>>>)
        options == _format_inputline(<<xzpln, xypln>>)
    IN  SetBlock("symmetric", <<xzpln, xypln>>, <<"S", "Y", "M", "M", "E",
            "T", "R", "I", "C">>,
                 Return(header \o options))

mach(amach) ==
    LET header == _format_header(<<<<"a", "m", "a", "c", "h">>>>)
        value  == _format_inputline(<<amach>>)
    IN  SetBlock("mach", <<amach>>, <<"M", "A", "C", "H", " ", "N", "U", "M",
            "B", "E", "R">>, Return(header \o value))

cases(nacase) ==
    LET header == _format_header(<<<<"n", "a", "c", "a", "s", "e">>>>)
        option == _format_inputline(<<nacase>>)
    IN  SetBlock("cases", <<nacase>>, <<"C", "A", "S", "E", "S">>,
            Return(header \o option))

\* the labels label(0), label(1), ... one per value
IndexedLabels(label, values) ==
    [i \in 1..Len(values) |-> label \o <<"(">> \o IntStr(i - 1) \o <<")">>]

anglesofattack(alpc, alphas) ==
    LET header1   == _format_header(<<<<"a", "l", "p", "c">>>>)
        input1    == _format_inputline(<<alpc>>)
        headers_2 == IndexedLabels(<<"a", "l", "p", "h", "a">>, alphas)
        header2   == _format_header(headers_2)
        input2    == _format_inputline(alphas)
        aoa_input == header1 \o input1 \o header2 \o input2
    IN  SetBlock("anglesofattack", <<alpc, alphas>>, <<"A", "N", "G", "L",
            "E", "S", " ", "O", "F", " ", "A", "T", "T", "A", "C", "K">>,
                 Return(aoa_input))

yawangle(betc, betas) ==
    LET header1    == _format_header(<<<<"b", "e", "t", "c">>>>)
        input1     == _format_inputline(<<betc>>)
        headers_2  == IndexedLabels(<<"b", "e", "t", "a">>, betas)
        header2    == _format_header(headers_2)
        input2     == _format_inputline(betas)
        beta_input == header1 \o input1 \o header2 \o input2
    IN  SetBlock("yawangle", <<betc, betas>>, <<"Y", "A", "W", " ", "A", "N",
            "G", "L", "E">>,
                 Return(beta_input))

referencedata(xref, yref, zref, sref, bref, cref, dref) ==
    LET header1   == _format_header(<<<<"x", "r", "e", "f">>, <<"y", "r",
            "e", "f">>, <<"z", "r", "e", "f">>>>)
        input1    == _format_inputline(<<xref, yref, zref>>)
        header2   == _format_header(<<<<"s", "r", "e", "f">>, <<"b", "r",
                "e", "f">>, <<"c", "r", "e", "f">>, <<"d", "r", "e", "f">>>>)
        input2    == _format_inputline(<<sref, bref, cref, dref>>)
        ref_input == header1 \o input1 \o header2 \o input2
    IN  SetBlock("referencedata", <<xref, yref, zref, sref, bref, cref, dref>>,
                 <<"R", "E", "F", "E", "R", "E", "N", "C", "E", " ", "D",
                         "A", "T", "A">>, Return(ref_input))

printout(isings, igeomp, isingp, icontp, ibconp, iedgep, ipraic, nexdgn, ioutpr, ifmcpr, icostp) ==
    LET header1 == _format_header(<<<<"i", "s", "i", "n", "g", "s">>, <<"i",
            "g", "e", "o", "m", "p">>, <<"i", "s", "i", "n", "g", "p">>,
                                    <<"i", "c", "o", "n", "t", "p">>, <<"i",
                                            "b", "c", "o", "n", "p">>, <<"i",
                                            "e", "d", "g", "e", "p">>>>)
        input1  == _format_inputline(<<isings, igeomp, isingp,
                                       icontp, ibconp, iedgep>>)
        header2 == _format_header(<<<<"i", "p", "r", "a", "i", "c">>, <<"n",
                "e", "x", "d", "g", "n">>, <<"i", "o", "u", "t", "p", "r">>,
                                    <<"i", "f", "m", "c", "p", "r">>, <<"i",
                                            "c", "o", "s", "t", "p">>>>)
        input2  == _format_inputline(<<ipraic, nexdgn, ioutpr,
                                       ifmcpr, icostp>>)
    IN  SetBlock("printout",
                 <<isings, igeomp, isingp, icontp, ibconp, iedgep,
                   ipraic, nexdgn, ioutpr, ifmcpr, icostp>>,
                 <<"P", "R", "I", "N", "T", "O", "U", "T", " ", "C", "O",
                         "N", "T", "R", "O", "L">>,
                 Return(header1 \o input1 \o header2 \o input2))

\* the network with a newline closing every row, odd or even
_gen_network_inp_closing(netname, pts) ==
    LET header == <<"=", "n", "m", " ", " ", " ", " ", " ", " ", " ", "n",
            "n", " ", " ", " ", " ", " ", " ", " ", " ", " ", " ", " ", " ",
            " ", " ", " ", " ", " ", " ", " ", " ", " ", " ", " ", " ", " ",
            " ", " ", " ", " ", " ", " ", " ", " ", " ", " ", " ", " ", " ",
            " ", " ", " ", " ", " ", " ", " ">>
                  \o <<" ", " ", " ", " ">> \o netname \o <<"\n">>
        nn == pts.nn
        nm == pts.nm
        values == _format_inputline(<<PyInt(nm), PyInt(nn)>>)
        row[i \in 1..nn] ==
            LET upto[j \in 0..nm] ==
                    IF j = 0 THEN Return(<<>>)
                    ELSE Add(AddR(upto[j - 1], _format_coord(pts.pt[i, j])),
                             IF j % 2 = 0 THEN <<"\n">> ELSE <<>>)
            IN  Add(upto[nm], <<"\n">>)
        network_input[i \in 0..nn] ==
            IF i = 0 THEN Return(header \o values)
            ELSE AddR(network_input[i - 1], row[i])
    IN  network_input[nn]

\* A network: an array of shape (nn, nm, 3); pt[i, j] is its point (i, j),
\* counted from 1 here and from 0 in the source.
\* The text of the network: its header, its shape, then row after row two
\* points a line; "\n" follows every second point of a row and, once more,
\* a row of odd length.
_gen_network_inp(netname, pts) ==
    LET header == <<"=", "n", "m", " ", " ", " ", " ", " ", " ", " ", "n",
            "n", " ", " ", " ", " ", " ", " ", " ", " ", " ", " ", " ", " ",
            " ", " ", " ", " ", " ", " ", " ", " ", " ", " ", " ", " ", " ",
            " ", " ", " ", " ", " ", " ", " ", " ", " ", " ", " ", " ", " ",
            " ", " ", " ", " ", " ", " ", " ">>
                  \o <<" ", " ", " ", " ">> \o netname \o <<"\n">>
        nn == pts.nn
        nm == pts.nm
        values == _format_inputline(<<PyInt(nm), PyInt(nn)>>)
        row[i \in 1..nn] ==
            LET upto[j \in 0..nm] ==
                    IF j = 0 THEN Return(<<>>)
                    ELSE Add(AddR(upto[j - 1], _format_coord(pts.pt[i, j])),
                             IF j % 2 = 0 THEN <<"\n">> ELSE <<>>)
            IN  Add(upto[nm], IF nm % 2 # 0 THEN <<"\n">> ELSE <<>>)
        network_input[i \in 0..nn] ==
            IF i = 0 THEN Return(header \o values)
            ELSE AddR(network_input[i - 1], row[i])
    IN  network_input[nn]

points(kn, kt, netnames, netpoints) ==
    LET header1 == _format_header(<<<<"k", "n">>>>)
        input1  == _format_inputline(<<kn>>)
        header2 == _format_header(<<<<"k", "t">>>>)
        input2  == _format_inputline(<<kt>>)
        points_input[i \in 0..int(kn)] ==
            IF i = 0 THEN Return(header1 \o input1 \o header2 \o input2)
            ELSE AddR(points_input[i - 1],
                      _gen_network_inp(netnames[i], netpoints[i]))
    IN  SetBlock("points", <<kn, kt, netnames, netpoints>>,
                 <<"P", "O", "I", "N", "T", "S", " ", "k", "t",
                         "=">> \o str(kt), points_input[int(kn)])

_gen_wake_inp(netname, inat, insd, xwake, twake) ==
    LET header == <<"=", "i", "n", "a", "t", " ", " ", " ", " ", " ", "i",
            "n", "s", "d", " ", " ", " ", " ", " ", " ", "x", "w", "a", "k",
            "e", " ", " ", " ", " ", " ", "t", "w", "a", "k", "e", " ", " ",
            " ", " ", " ", " ", " ", " ", " ", " ", " ", " ", " ", " ", " ",
            " ", " ", " ", " ", " ", " ", " ">>
                  \o <<" ", " ", " ", " ">> \o netname \o <<"\n">>
        values == _format_str_opt(inat) \o _format_opt(insd)
                  \o _format_opt(xwake) \o _format_opt(twake) \o <<"\n">>
    IN  header \o values

trailingwakenetworks(kn, kt, matchw, netnames, inat, insd, xwake, twake) ==
    LET header1 == _format_header(<<<<"k", "n">>>>)
        input1  == _format_inputline(<<kn>>)
        header2 == _format_header(<<<<"k", "t">>, <<"m", "a", "t", "c", "h",
                "w">>>>)
        input2  == _format_inputline(<<kt, matchw>>)
        wake_input[i \in 0..int(kn)] ==
            IF i = 0 THEN header1 \o input1 \o header2 \o input2
            ELSE wake_input[i - 1]
                 \o _gen_wake_inp(netnames[i], inat[i], insd[i],
                                  xwake[i], twake[i])
    IN  SetBlock("trailingwakenetworks",
                 <<kn, kt, matchw, netnames, inat, insd, xwake, twake>>,
                 <<"T", "R", "A", "I", "L", "I", "N", "G", " ", "m", "a",
                         "t", "c", "h", "w", "=">> \o str(matchw),
                 Return(wake_input[int(kn)]))

flowfieldproperties(nflowv, tpoff) ==
    LET header == _format_header(<<<<"n", "f", "l", "o", "w", "v">>, <<"t",
            "p", "o", "f", "f">>>>)
        values == _format_inputline(<<nflowv, tpoff>>)
    IN  SetBlock("flowfieldproperties", <<nflowv, tpoff>>,
                 <<"F", "L", "O", "W", "-", "F", "I", "E", "L", "D", " ",
                         "P", "R", "O", "P", "E", "R", "T", "I", "E", "S">>,
                         Return(header \o values))

\* pts: the sequence of the off-body points
xyzcoordinatesofoffbodypoints(isk1, pts) ==
    LET header1 == _format_header(<<<<"i", "s", "k", "1">>>>)
        input1  == _format_inputline(<<isk1>>)
        header2 == _format_header(<<<<"x", "o", "f">>, <<"y", "o", "f">>,
                <<"z", "o", "f">>,
                                    <<"x", "o", "f">>, <<"y", "o", "f">>,
                                            <<"z", "o", "f">>>>)
        upto[i \in 0..int(isk1)] ==
            IF i = 0 THEN Return(header1 \o input1 \o header2)
            ELSE Add(AddR(upto[i - 1], _format_coord(pts[i])),
                     IF i % 2 = 0 THEN <<"\n">> ELSE <<>>)
        offbody_input ==
            Add(upto[int(isk1)], IF int(isk1) % 2 # 0 THEN <<"\n">> ELSE <<>>)
    IN  SetBlock("xyzcoordinatesofoffbodypoints", <<isk1, pts>>,
                 <<"X", "Y", "Z", " ", "O", "F", " ", "O", "F", "F", "-",
                         "B", "O", "D", "Y", " ", "P", "O", "I", "N", "T",
                         "S">>, offbody_input)

\* the file without the newline after the block's name
FileText_nonewline(d) ==
    LET f[i \in 0..Len(d)] ==
            IF i = 0 THEN <<>>
            ELSE f[i - 1] \o <<"$">> \o d[i].name \o d[i].text
    IN  f[Len(d)] \o <<"$", "e", "n", "d">>

\* the characters write_inputfile writes for the deck d
FileText(d) ==
    LET f[i \in 0..Len(d)] ==
            IF i = 0 THEN <<>>
            ELSE f[i - 1] \o <<"$">> \o d[i].name \o <<"\n">> \o d[i].text
    IN  f[Len(d)] \o <<"$", "e", "n", "d">>

write_inputfile ==
    /\ outfile' = FileText(input_dict)
    /\ call' = [op |-> "write_inputfile", args |-> <<>>, raised |-> FALSE,
                key |-> <<>>, text |-> <<>>]
    /\ ncalls' = ncalls + 1
    /\ UNCHANGED <<input_dict, inserted, funVars>>

-----------------------------------------------------------------------------
(* The floats the encoders are applied to.                                 *)

IntParts == {0, 1, 9, 10, 99, 100, 999, 1000, 9999, 10000, 99999, 100000}

\* runs of one digit; no run ends in an exact decimal tie
Fracs == {<<>>} \cup {[i \in 1..n |-> d] : n \in 1..MaxFracLen, d \in {1, 4, 9}}

Numbers == [neg : BOOLEAN, ip : IntParts, fr : Fracs]

Magnitude100000(x) == x.ip >= 100000

SomeNumbers ==
    {PyInt(0), PyInt(1), PyInt(-1), PyInt(100000),
     Float(FALSE, 0, [i \in 1..MaxFracLen |-> 1]),
     Float(TRUE, 12, <<4>>)}

CoordArgs ==
    {[fn |-> "_format_coord", a |-> <<x, y, y>>] :
        x \in Numbers, y \in {Float(FALSE, 0, <<>>), Float(TRUE, 1, <<4>>)}}

InputlineArgs ==
    {[fn |-> "_format_inputline", a |-> vs] :
        vs \in UNION {[1..n -> SomeNumbers] : n \in 0..MaxVals}}

-----------------------------------------------------------------------------
(* The deck does not move while a single function is exercised.            *)

None == [ok |-> TRUE, v |-> <<>>]

NoCall ==
    [op |-> "__init__", args |-> <<>>, raised |-> FALSE, key |-> <<>>,
     text |-> <<>>]

DeckInit ==
    /\ input_dict = <<>>
    /\ outfile = <<>>
    /\ call = NoCall
    /\ inserted = {}
    /\ ncalls = 0

FunIdle ==
    /\ arg = [fn |-> "none", a |-> <<>>]
    /\ ret = None
    /\ pc = "idle"

-----------------------------------------------------------------------------
(* Specification of the encoders: one call on arguments drawn by Init.     *)

InitEnc ==
    /\ DeckInit
    /\ arg \in CoordArgs \cup InputlineArgs
    /\ ret = None
    /\ pc = "ready"

FormatCoord ==
    /\ pc = "ready"
    /\ arg.fn = "_format_coord"
    /\ ret' = _format_coord(arg.a)
    /\ pc' = "done"
    /\ UNCHANGED <<arg, deckVars>>

FormatInputline ==
    /\ pc = "ready"
    /\ arg.fn = "_format_inputline"
    /\ ret' = Return(_format_inputline(arg.a))
    /\ pc' = "done"
    /\ UNCHANGED <<arg, deckVars>>

NextEnc == FormatCoord \/ FormatInputline

SpecEnc == InitEnc /\ [][NextEnc]_vars

-----------------------------------------------------------------------------
(* Arguments of the builder calls.                                         *)

\* the sequences over S of length at most n
SeqUpTo(S, n) == UNION {[1..k -> S] : k \in 0..n}

\* most rows and most columns of a network
MaxRows == 2

MaxCols == 3

\* most networks given to one points call
MaxNets == 2

\* most off-body points
MaxPts == 3

\* most InputFile methods called on one deck
MaxCalls == 3

\* 9.99...9, which rounds up to 10 at eight fractional digits
NearTen == Float(FALSE, 9, [i \in 1..MaxFracLen |-> 9])

\* a point of small coordinates
Plain(i, j) ==
    <<Float(FALSE, i, <<>>), Float(TRUE, j, <<4>>), Float(FALSE, 0, <<1>>)>>

\* the network of shape (nn, nm, 3) filled one of three ways
Network(nn, nm, fill) ==
    [nn |-> nn, nm |-> nm,
     pt |-> [i \in 1..nn, j \in 1..nm |->
                IF fill = "huge" /\ i = nn /\ j = nm
                THEN [Plain(i, j) EXCEPT ![3] = Float(TRUE, 100000, <<>>)]
                ELSE IF fill = "carry"
                THEN [Plain(i, j) EXCEPT ![1] = NearTen]
                ELSE Plain(i, j)]]

Fills == {"plain", "huge", "carry"}

\* every shape filled plainly, the greatest shape filled every way
Networks ==
    {Network(nn, nm, "plain") : nn \in 0..MaxRows, nm \in 0..MaxCols}
    \cup {Network(MaxRows, MaxCols, fill) : fill \in Fills}

OffBodyPoints ==
    {Plain(1, 2), <<NearTen, Float(FALSE, 0, <<>>), Float(FALSE, 0, <<>>)>>,
     <<Float(FALSE, 0, <<>>), Float(FALSE, 100000, <<1>>),
       Float(FALSE, 0, <<>>)>>}

Scalars ==
    {PyInt(1), Float(FALSE, 1, <<5>>), Float(FALSE, 100000, <<>>),
     Float(TRUE, 123456, <<4>>)}

upper == <<"u", "p", "p", "e", "r">>

lower == <<"l", "o", "w", "e", "r">>

left == <<"l", "e", "f", "t">>

test_case == <<"t", "e", "s", "t", " ", "c", "a", "s", "e">>

Ted_Giblette == <<"T", "e", "d", " ", "G", "i", "b", "l", "e", "t", "t", "e">>

-----------------------------------------------------------------------------
(* Specification of one builder call on a new InputFile, over a wide range *)
(* of arguments.                                                           *)

InitCall == DeckInit /\ FunIdle

\* the deck is new: no method was called on it
Fresh == ncalls = 0

NextCall ==
    \/ Fresh /\ \E nets \in SeqUpTo(Networks, MaxNets) :
          points(PyInt(Len(nets)), PyInt(1),
                 [i \in 1..Len(nets) |-> IF i = 1 THEN upper ELSE lower],
                 nets)
    \/ Fresh /\ \E k \in 0..MaxPts : \E pts \in [1..k -> OffBodyPoints] :
          xyzcoordinatesofoffbodypoints(PyInt(k), pts)
    \/ Fresh /\ \E amach \in Scalars : mach(amach)
    \/ Fresh /\ \E xref \in Scalars, dref \in Scalars :
          referencedata(xref, PyInt(0), PyInt(0), PyInt(1), PyInt(1),
                        PyInt(1), dref)
    \/ Fresh /\ \E xwake \in Scalars, twake \in Scalars :
          trailingwakenetworks(PyInt(1), PyInt(18), PyInt(0), <<upper>>,
                               <<left>>, <<PyInt(3)>>, <<xwake>>, <<twake>>)

SpecCall == InitCall /\ [][NextCall]_vars

-----------------------------------------------------------------------------
(* Specification of an InputFile: any sequence of at most MaxCalls calls,  *)
(* over a few arguments for each builder.                                  *)

Init == DeckInit /\ FunIdle

More == ncalls < MaxCalls

Next ==
    \/ More /\ title(test_case, Ted_Giblette)
    \/ More /\ datacheck(PyInt(0))
    \/ More /\ symmetric(PyInt(1), PyInt(0))
    \/ More /\ \E amach \in {Float(FALSE, 1, <<5>>), PyInt(2)} : mach(amach)
    \/ More /\ cases(PyInt(1))
    \/ More /\ anglesofattack(Float(FALSE, 0, <<>>),
                               <<Float(TRUE, 1, <<>>), Float(FALSE, 0, <<>>)>>)
    \/ More /\ yawangle(Float(FALSE, 0, <<>>), <<Float(TRUE, 1, <<>>)>>)
    \/ More /\ referencedata(PyInt(0), PyInt(0), PyInt(0), PyInt(1),
                              PyInt(1), PyInt(1), PyInt(1))
    \/ More /\ printout(PyInt(0), PyInt(0), PyInt(0), PyInt(0), PyInt(0),
                         PyInt(0), PyInt(0), PyInt(0), PyInt(1), PyInt(0),
                         PyInt(0))
    \/ More /\ \E kt \in {PyInt(1), PyInt(2)}, fill \in {"plain", "huge"} :
          points(PyInt(1), kt, <<upper>>, <<Network(1, 3, fill)>>)
    \/ More /\ \E matchw \in {PyInt(0), PyInt(1)} :
          trailingwakenetworks(PyInt(1), PyInt(18), matchw, <<upper>>,
                               <<left>>, <<PyInt(3)>>,
                               <<Float(FALSE, 10, <<>>)>>, <<PyInt(0)>>)
    \/ More /\ flowfieldproperties(Float(FALSE, 1, <<>>), Float(FALSE, 0, <<>>))
    \/ More /\ xyzcoordinatesofoffbodypoints(PyInt(1), <<Plain(1, 2)>>)
    \/ More /\ write_inputfile

Spec == Init /\ [][Next]_vars

-----------------------------------------------------------------------------
(* OutputFiles: reading text.  A file is the sequence of its lines, each   *)
(* with its newline, as readlines() gives them.                            *)

Whitespace == {" ", "\t", "\n", "\r"}

\* s.split(): the runs of characters other than whitespace
split(s) ==
    LET scan[i \in 0..Len(s)] ==
            IF i = 0 THEN [words |-> <<>>, word |-> <<>>]
            ELSE LET before == scan[i - 1] IN
                 IF s[i] \in Whitespace
                 THEN IF before.word = <<>> THEN before
                      ELSE [words |-> Append(before.words, before.word),
                            word  |-> <<>>]
                 ELSE [before EXCEPT !.word = Append(before.word, s[i])]
        last == scan[Len(s)]
    IN  IF last.word = <<>> THEN last.words ELSE Append(last.words, last.word)

\* s.split(sep): the pieces between the separators, one more than separators
split_on(s, sep) ==
    LET scan[i \in 0..Len(s)] ==
            IF i = 0 THEN [pieces |-> <<>>, piece |-> <<>>]
            ELSE LET before == scan[i - 1] IN
                 IF s[i] = sep
                 THEN [pieces |-> Append(before.pieces, before.piece),
                       piece  |-> <<>>]
                 ELSE [before EXCEPT !.piece = Append(before.piece, s[i])]
    IN  Append(scan[Len(s)].pieces, scan[Len(s)].piece)

\* s.strip()
strip(s) ==
    LET inner == {i \in 1..Len(s) : s[i] \notin Whitespace}
    IN  IF inner = {} THEN <<>>
        ELSE SubSeq(s, CHOOSE i \in inner : \A j \in inner : i <= j,
                       CHOOSE i \in inner : \A j \in inner : i >= j)

IsDigit(ch) == \E d \in 1..10 : DigitChar[d] = ch

DigitValue(ch) == (CHOOSE d \in 1..10 : DigitChar[d] = ch) - 1

AllDigits(s) == s # <<>> /\ \A i \in 1..Len(s) : IsDigit(s[i])

\* the number written by a sequence of digit characters
Decimal(s) ==
    LET upto[i \in 0..Len(s)] ==
            IF i = 0 THEN 0 ELSE 10 * upto[i - 1] + DigitValue(s[i])
    IN  upto[Len(s)]

\* int(s) of a str: whitespace around, a sign, decimal digits; anything
\* else is a ValueError
parse_int(s) ==
    LET t      == strip(s)
        signed == t # <<>> /\ t[1] \in {"-", "+"}
        digits == IF signed THEN Tail(t) ELSE t
    IN  IF ~AllDigits(digits) THEN Raise("ValueError")
        ELSE Return(IF signed /\ t[1] = "-" THEN -Decimal(digits)
                    ELSE Decimal(digits))

\* the digits of a fraction, its trailing zeros dropped
RECURSIVE DropZeros(_)
DropZeros(ds) ==
    IF ds # <<>> /\ ds[Len(ds)] = 0 THEN DropZeros(SubSeq(ds, 1, Len(ds) - 1))
    ELSE ds

\* float(s) of a str of the form [sign] digits [. digits], the only form the
\* modelled files hold; a str with another character is a ValueError
parse_float(s) ==
    LET t      == strip(s)
        signed == t # <<>> /\ t[1] \in {"-", "+"}
        body   == IF signed THEN Tail(t) ELSE t
        parts  == split_on(body, ".")
        whole  == parts[1]
        frac   == IF Len(parts) = 2 THEN parts[2] ELSE <<>>
    IN  IF \/ Len(parts) > 2
           \/ ~AllDigits(whole)
           \/ (frac # <<>> /\ ~AllDigits(frac))
        THEN Raise("ValueError")
        ELSE Return(Float(signed /\ t[1] = "-", Decimal(whole),
                          DropZeros([i \in 1..Len(frac) |->
                                        DigitValue(frac[i])])))

\* flag in line
Contains(line, flag) ==
    \E k \in 0..(Len(line) - Len(flag)) :
        SubSeq(line, k + 1, k + Len(flag)) = flag

\* the least element of a non-empty set of numbers
Min(S) == CHOOSE x \in S : \A y \in S : x <= y

\* the greatest element of a non-empty set of numbers
Max(S) == CHOOSE x \in S : \A y \in S : x >= y

-----------------------------------------------------------------------------
(* OutputFiles: the parsers.  lines is the content of the file each reads. *)

\* Positions are counted from 1 here: begin is the first line holding the
\* begin flag, end the first line at or after it holding the end flag; a
\* scan that finds no such line runs off the list (IndexError).
_get_block(block_name, lines) ==
    LET begin_flag == <<"0", "*", "b", "*">> \o block_name
        end_flag   == <<"0", "*", "e", "*">> \o block_name
        begins == {i \in 1..Len(lines) : Contains(lines[i], begin_flag)}
        begin  == Min(begins)
        ends   == {i \in begin..Len(lines) : Contains(lines[i], end_flag)}
        end    == Min(ends)
    IN  IF begins = {} THEN Raise("IndexError")
        ELSE IF ends = {} THEN Raise("IndexError")
        ELSE Return(SubSeq(lines, begin + 1, end - 1))

\* the first line instead of the last
check_successful_firstline(lines) ==
    IF lines = <<>> THEN Raise("IndexError")
    ELSE LET words == split(lines[1])
         IN  IF words = <<>> THEN Raise("IndexError")
             ELSE Return(words[1] # <<"A", "B", "O", "R", "T">>)

check_successful(lines) ==
    IF lines = <<>> THEN Raise("IndexError")
    ELSE LET words == split(lines[Len(lines)])
         IN  IF words = <<>> THEN Raise("IndexError")
             ELSE IF words[1] = <<"A", "B", "O", "R", "T">> THEN Return(FALSE)
             ELSE Return(TRUE)

\* the lines parse_agps passes over before it reads
HeaderLines == 6

\* re.match(pattern, line) for a pattern of plain characters
Matches(pattern, line) ==
    Len(line) >= Len(pattern) /\ SubSeq(line, 1, Len(pattern)) = pattern

\* the floats of the tokens, or the first error
floats(tokens) ==
    LET each == [i \in 1..Len(tokens) |-> parse_float(tokens[i])]
    IN  IF \E i \in 1..Len(tokens) : ~each[i].ok THEN Raise("ValueError")
        ELSE Return([i \in 1..Len(tokens) |-> each[i].v])

\* a turn that takes the network id for the column id too
agps_line_nocolumn(st, line) ==
    IF Matches(<<"n">>, line)
    THEN LET parts   == split_on(line, "c")
             network == parse_int(Tail(parts[1]))
             column  == parse_int(parts[2])
         IN  IF Len(parts) # 2 \/ ~network.ok \/ ~column.ok
             THEN [st EXCEPT !.ok = FALSE, !.exc = "ValueError"]
             ELSE [st EXCEPT !.n = network.v, !.c = network.v]
    ELSE IF Matches(<<"*", "e", "o", "f">>, line) THEN st
    ELSE IF Matches(<<" ", "i", "r", "o", "w">>, line) THEN st
    ELSE LET row_data == split(line)
             r        == parse_int(row_data[1])
             xyzCp    == floats(Tail(row_data))
         IN  IF row_data = <<>>
             THEN [st EXCEPT !.ok = FALSE, !.exc = "IndexError"]
             ELSE IF ~r.ok \/ ~xyzCp.ok
             THEN [st EXCEPT !.ok = FALSE, !.exc = "ValueError"]
             ELSE [st EXCEPT !.data = Append(@, <<st.n, st.c, r.v>> \o xyzCp.v)]

\* One turn of the loop of parse_agps: st is [ok, exc, data, n, c].
\* 'n[0-9]*' matches every line that starts with "n".
agps_line(st, line) ==
    IF Matches(<<"n">>, line)
    THEN LET parts   == split_on(line, "c")
             network == parse_int(Tail(parts[1]))
             column  == parse_int(parts[2])
         IN  IF Len(parts) # 2 \/ ~network.ok \/ ~column.ok
             THEN [st EXCEPT !.ok = FALSE, !.exc = "ValueError"]
             ELSE [st EXCEPT !.n = network.v, !.c = column.v]
    ELSE IF Matches(<<"*", "e", "o", "f">>, line) THEN st
    ELSE IF Matches(<<" ", "i", "r", "o", "w">>, line) THEN st
    ELSE LET row_data == split(line)
             r        == parse_int(row_data[1])
             xyzCp    == floats(Tail(row_data))
         IN  IF row_data = <<>>
             THEN [st EXCEPT !.ok = FALSE, !.exc = "IndexError"]
             ELSE IF ~r.ok \/ ~xyzCp.ok
             THEN [st EXCEPT !.ok = FALSE, !.exc = "ValueError"]
             ELSE [st EXCEPT !.data = Append(@, <<st.n, st.c, r.v>> \o xyzCp.v)]

parse_agps(lines) ==
    LET body == SubSeq(lines, HeaderLines + 1, Len(lines))
        loop[i \in 0..Len(body)] ==
            IF i = 0
            THEN [ok |-> TRUE, exc |-> "", data |-> <<>>, n |-> 0, c |-> 0]
            ELSE IF ~loop[i - 1].ok THEN loop[i - 1]
            ELSE agps_line(loop[i - 1], body[i])
        last == loop[Len(body)]
    IN  IF last.ok THEN Return(last.data) ELSE Raise(last.exc)

\* a[i] for a Python index i into a list or an axis of a given size: a
\* negative index counts from the end; 0 stands for an IndexError
PyIndex(i, size) ==
    IF 0 <= i /\ i < size THEN i + 1
    ELSE IF -size <= i /\ i < 0 THEN i + size + 1
    ELSE 0

\* Each sample is <<network, column, row, x, y, z, Cp>>.  The outcome is the
\* sequence of the grids handed to gridToVTK, one after another, and whether
\* the call came to its end.
generate_vtk(data) ==
    IF data = <<>> THEN [ok |-> FALSE, v |-> <<>>]
    ELSE
    LET networks == Max({data[k][1] : k \in 1..Len(data)})
        size     == IF networks > 0 THEN networks ELSE 0
        all_points == [n \in 1..size |->
            SelectSeq(data, LAMBDA p : PyIndex(p[1] - 1, size) = n)]
        grid(n) ==
            LET points_array == all_points[n]
                ks        == 1..Len(points_array)
                n_columns == Max({points_array[k][2] : k \in ks})
                n_rows    == Max({points_array[k][3] : k \in ks})
                cell(p)   == <<PyIndex(p[3] - 1, n_rows),
                               PyIndex(p[2] - 1, n_columns)>>
                array(x)  ==
                    [i \in 1..n_rows, j \in 1..n_columns |->
                        LET hits == {k \in ks :
                                        cell(points_array[k]) = <<i, j>>}
                        IN  IF hits = {} THEN 0 ELSE points_array[Max(hits)][x]]
            IN  IF points_array = <<>> \/ n_rows <= 0 \/ n_columns <= 0
                   \/ \E k \in ks : 0 \in
                         {cell(points_array[k])[1], cell(points_array[k])[2]}
                THEN Raise("IndexError")
                ELSE Return([network |-> n, n_rows |-> n_rows,
                             n_columns |-> n_columns,
                             X |-> array(4), Y |-> array(5), Z |-> array(6),
                             CP |-> array(7)])
        export[n \in 0..size] ==
            IF n = 0 THEN [ok |-> TRUE, v |-> <<>>]
            ELSE IF ~export[n - 1].ok THEN export[n - 1]
            ELSE IF ~grid(n).ok THEN [ok |-> FALSE, v |-> export[n - 1].v]
            ELSE [ok |-> TRUE, v |-> Append(export[n - 1].v, grid(n).v)]
    IN  IF \E k \in 1..Len(data) : PyIndex(data[k][1] - 1, size) = 0
        THEN [ok |-> FALSE, v |-> <<>>]
        ELSE export[size]

-----------------------------------------------------------------------------
(* The files the parsers are applied to.                                   *)

\* most lines of a report given to _get_block
MaxLines == 4

\* most lines of a run-status file
MaxErrLines == 3

\* most lines after the header of a sample file
MaxBody == 3

\* most samples given to generate_vtk, and the greatest network id
MaxSamples == 3

MaxNetwork == 3

off_body == <<"o", "f", "f", "-", "b", "o", "d", "y">>

ReportLines ==
    {<<"0", "*", "b", "*", "o", "f", "f", "-", "b", "o", "d", "y", "\n">>,
            <<"0", "*", "e", "*", "o", "f", "f", "-", "b", "o", "d", "y",
            "\n">>,
     <<"0", "*", "b", "*", "o", "f", "f", "-", "b", "o", "d", "y", "-", "2",
             "\n">>, <<"0", "*", "e", "*", "o", "f", "f", "-", "b", "o", "d",
             "y", "-", "2", "\n">>,
     <<" ", "1", ".", "0", "\n">>, <<" ", "2", ".", "0", "\n">>}

ErrLines ==
    {<<"A", "B", "O", "R", "T", "\n">>, <<" ", " ", "A", "B", "O", "R", "T",
            " ", "c", "a", "l", "l", "e", "d", "\n">>, <<"A", "B", "O", "R",
            "T", "E", "D", "\n">>, <<"e", "n", "d", " ", "A", "B", "O", "R",
            "T", "\n">>,
     <<"\n">>, <<"n", "o", "r", "m", "a", "l", " ", "e", "n", "d", "\n">>}

AgpsLines ==
    {<<"n", "1", "c", "2", "\n">>, <<"n", "2", "c", "1", "\n">>, <<"*", "e",
            "o", "f", "\n">>, <<" ", "i", "r", "o", "w", " ", "x", "\n">>,
            <<"1", " ", "0", ".", "5", "\n">>,
     <<" ", " ", "2", " ", "1", ".", "5", " ", "0", "\n">>, <<"\n">>}

\* a sample file starts with six lines of header, or is cut short
AgpsHeaders ==
    {<<>>} \cup {[i \in 1..HeaderLines |-> h] :
                    h \in {<<" ", "t", "i", "t", "l", "e", "\n">>, <<"n",
                            "2", "c", "1", "\n">>, <<"1", " ", "0", ".", "5",
                            "\n">>}}

Samples ==
    {<<n, c, r, x, 0, 0, x>> :
        n \in 1..MaxNetwork, c \in 1..2, r \in 1..2, x \in 1..2}

-----------------------------------------------------------------------------
(* Specifications of the parsers: one call on a file drawn by Init.        *)

InitBlock ==
    /\ DeckInit
    /\ arg \in {[fn |-> "_get_block", a |-> lines] :
                   lines \in SeqUpTo(ReportLines, MaxLines)}
    /\ ret = None
    /\ pc = "ready"

GetBlock ==
    /\ pc = "ready"
    /\ arg.fn = "_get_block"
    /\ ret' = _get_block(off_body, arg.a)
    /\ pc' = "done"
    /\ UNCHANGED <<arg, deckVars>>

SpecBlock == InitBlock /\ [][GetBlock]_vars

InitStatus ==
    /\ DeckInit
    /\ arg \in {[fn |-> "check_successful", a |-> lines] :
                   lines \in SeqUpTo(ErrLines, MaxErrLines)}
    /\ ret = None
    /\ pc = "ready"

CheckSuccessful ==
    /\ pc = "ready"
    /\ arg.fn = "check_successful"
    /\ ret' = check_successful(arg.a)
    /\ pc' = "done"
    /\ UNCHANGED <<arg, deckVars>>

SpecStatus == InitStatus /\ [][CheckSuccessful]_vars

InitAgps ==
    /\ DeckInit
    /\ arg \in {[fn |-> "parse_agps", a |-> header \o body] :
                   header \in AgpsHeaders, body \in SeqUpTo(AgpsLines, MaxBody)}
    /\ ret = None
    /\ pc = "ready"

ParseAgps ==
    /\ pc = "ready"
    /\ arg.fn = "parse_agps"
    /\ ret' = parse_agps(arg.a)
    /\ pc' = "done"
    /\ UNCHANGED <<arg, deckVars>>

SpecAgps == InitAgps /\ [][ParseAgps]_vars

InitVtk ==
    /\ DeckInit
    /\ arg \in {[fn |-> "generate_vtk", a |-> data] :
                   data \in SeqUpTo(Samples, MaxSamples)}
    /\ ret = None
    /\ pc = "ready"

GenerateVtk ==
    /\ pc = "ready"
    /\ arg.fn = "generate_vtk"
    /\ ret' = generate_vtk(arg.a)
    /\ pc' = "done"
    /\ UNCHANGED <<arg, deckVars>>

SpecVtk == InitVtk /\ [][GenerateVtk]_vars

-----------------------------------------------------------------------------
(* Reading text back, for the properties below.                            *)

StartsWith(s, prefix) ==
    Len(s) >= Len(prefix) /\ SubSeq(s, 1, Len(prefix)) = prefix

EndsWith(s, suffix) ==
    Len(s) >= Len(suffix)
    /\ SubSeq(s, Len(s) - Len(suffix) + 1, Len(s)) = suffix

\* the places of the character ch in s
Places(s, ch) == {i \in 1..Len(s) : s[i] = ch}

\* the pieces of s between its newlines; the last piece is empty when s ends
\* with a newline
RECURSIVE TextLines(_)
TextLines(s) ==
    IF \A i \in 1..Len(s) : s[i] # "\n" THEN <<s>>
    ELSE LET first == CHOOSE i \in 1..Len(s) :
                         s[i] = "\n" /\ \A j \in 1..(i - 1) : s[j] # "\n"
         IN  <<SubSeq(s, 1, first - 1)>>
             \o TextLines(SubSeq(s, first + 1, Len(s)))

\* lines, each closed by a newline, as one text
RECURSIVE Unlines(_)
Unlines(ls) ==
    IF ls = <<>> THEN <<>> ELSE Head(ls) \o <<"\n">> \o Unlines(Tail(ls))

\* the number of points on a line of coordinates: every coordinate is
\* written with one decimal point, every point has three coordinates
PointsOnLine(line) == Cardinality(Places(line, ".")) \div 3

\* ceiling of n / 2
HalfUp(n) == (n + 1) \div 2

-----------------------------------------------------------------------------
(* The encoders.                                                           *)

\* C1: for every finite number of magnitude under 100000, either sign, the
\* coordinate encoder returns a field of exactly 10 characters, so a triple
\* of such numbers gives exactly 30 characters (a field is never shorter
\* than 10: it is padded).
C1_CoordFieldIs10Wide ==
    (pc = "done" /\ arg.fn = "_format_coord"
        /\ \A i \in 1..3 : ~Magnitude100000(arg.a[i]))
    => (ret.ok /\ Len(ret.v) = 30)

\* C10: a value line of k values is k fields of exactly 10 characters and a
\* newline, 10 * k + 1 characters, for every numeric value.
C10_ValueLineIs10PerValue ==
    (pc = "done" /\ arg.fn = "_format_inputline")
    => Len(ret.v) = 10 * Len(arg.a) + 1

-----------------------------------------------------------------------------
(* One builder call.                                                       *)

\* the coordinates the call has to render through _format_coord
RenderedCoords ==
    IF call.op = "points"
    THEN UNION {{net.pt[i, j][k] : i \in 1..net.nn, j \in 1..net.nm,
                                    k \in 1..3} :
                   net \in {call.args[4][n] : n \in 1..int(call.args[1])}}
    ELSE IF call.op = "xyzcoordinatesofoffbodypoints"
    THEN {call.args[2][i][k] : i \in 1..int(call.args[1]), k \in 1..3}
    ELSE {}

\* the scalars the call has to render on its value lines
RenderedScalars ==
    IF call.op \in {"mach", "referencedata"}
    THEN {call.args[i] : i \in 1..Len(call.args)}
    ELSE IF call.op = "trailingwakenetworks"
    THEN {call.args[1], call.args[2], call.args[3]}
         \cup {call.args[6][i] : i \in 1..int(call.args[1])}
         \cup {call.args[7][i] : i \in 1..int(call.args[1])}
         \cup {call.args[8][i] : i \in 1..int(call.args[1])}
    ELSE {}

Huge(numbers) == \E x \in numbers : Magnitude100000(float(x))

\* C2 as claimed: every builder call that has to render a number of
\* magnitude 100000 or more, as a coordinate or as a scalar of a value
\* line, raises instead of producing field text.
C2_EveryHugeNumberRaises ==
    Huge(RenderedCoords \cup RenderedScalars) => call.raised

\* C2 as amended: a points or xyzcoordinatesofoffbodypoints call that has to
\* render a coordinate of magnitude 100000 or more raises and stores no
\* block, and raises for no other reason; the calls that render only value
\* lines (mach, referencedata, trailingwakenetworks) never raise, whatever
\* the magnitude, and store their block.
C2_HugeCoordinateRaises ==
    /\ call.op \in {"points", "xyzcoordinatesofoffbodypoints"}
        => /\ call.raised <=> Huge(RenderedCoords)
           /\ call.raised => input_dict = <<>>
    /\ call.op \in {"mach", "referencedata", "trailingwakenetworks"}
        => /\ ~call.raised
           /\ Len(input_dict) = 1
           /\ input_dict[1].text = call.text

\* C2's case: a network with a coordinate of magnitude 100000 was given to
\* points, which raised.
C2_Witness ==
    /\ call.op = "points"
    /\ call.raised
    /\ Huge(RenderedCoords)

\* the lines of the text the call stored, the final newline closing the last
StoredLines == LET ls == TextLines(call.text) IN SubSeq(ls, 1, Len(ls) - 1)

\* the number of lines the networks before the n-th take in a POINTS block
RECURSIVE NetworkOffset(_, _)
NetworkOffset(nets, n) ==
    IF n = 1 THEN 4
    ELSE NetworkOffset(nets, n - 1)
         + 2 + nets[n - 1].nn * HalfUp(nets[n - 1].nm)

\* C9 as claimed: a row of odd point count ends with the line of the
\* leftover point followed by an empty line.  (Stated for the last row of
\* the block, whose end is the end of the block's text.)
C9_OddRowEndsWithBlankLine ==
    /\ (call.op = "points" /\ ~call.raised /\ int(call.args[1]) >= 1
          /\ LET last == call.args[4][int(call.args[1])]
             IN  last.nn >= 1 /\ last.nm % 2 = 1)
        => EndsWith(call.text, <<"\n", "\n">>)
    /\ (call.op = "xyzcoordinatesofoffbodypoints" /\ ~call.raised
          /\ int(call.args[1]) % 2 = 1)
        => EndsWith(call.text, <<"\n", "\n">>)

\* C9 as amended: points are written two per line; a row of odd point count
\* ends with the line holding the leftover point alone, closed by its
\* newline and followed by no empty line; a row of even count gets no extra
\* line and a record with no points has no body lines.  So a network of
\* shape (nn, nm) takes nn * ceil(nm / 2) body lines, none empty, and the
\* off-body block ceil(isk1 / 2).
C9_TwoPointsPerLine ==
    /\ (call.op = "points" /\ ~call.raised)
        => LET nets   == call.args[4]
               kn     == int(call.args[1])
               stored == StoredLines
           IN  /\ EndsWith(call.text, <<"\n">>)
               /\ Len(stored) = NetworkOffset(nets, kn + 1)
               /\ \A n \in 1..kn : \A i \in 1..nets[n].nn :
                     \A l \in 1..HalfUp(nets[n].nm) :
                        PointsOnLine(stored[
                            NetworkOffset(nets, n) + 2
                            + (i - 1) * HalfUp(nets[n].nm) + l])
                        = IF 2 * l <= nets[n].nm THEN 2 ELSE 1
    /\ (call.op = "xyzcoordinatesofoffbodypoints" /\ ~call.raised)
        => LET isk1   == int(call.args[1])
               stored == StoredLines
           IN  /\ EndsWith(call.text, <<"\n">>)
               /\ Len(stored) = 3 + HalfUp(isk1)
               /\ \A l \in 1..HalfUp(isk1) :
                     PointsOnLine(stored[3 + l])
                     = IF 2 * l <= isk1 THEN 2 ELSE 1

\* C9's case: a network with two rows of three points was rendered.
C9_Witness ==
    /\ call.op = "points"
    /\ ~call.raised
    /\ int(call.args[1]) >= 1
    /\ call.args[4][1].nn = 2
    /\ call.args[4][1].nm = 3

-----------------------------------------------------------------------------
(* Sequences of calls on one InputFile.                                    *)

\* the lines of the written file that start with the delimiter
MarkerLines == SelectSeq(TextLines(outfile), LAMBDA l : StartsWith(l,
        <<"$">>))

\* the places, among the lines of the written file, of the marker lines
MarkerPlaces ==
    LET ls == TextLines(outfile)
    IN  {i \in 1..Len(ls) : StartsWith(ls[i], <<"$">>)}

\* the k-th smallest element of a set of numbers
Nth(S, k) == CHOOSE x \in S : Cardinality({y \in S : y < x}) = k - 1

\* C3: right after write_inputfile the file holds, for every block of the
\* deck in insertion order, the line "$" + name and then the block's text,
\* and it ends with "$end"; the names in the file are exactly the names
\* inserted, each once.
C3_FileIsDeckInOrder ==
    call.op = "write_inputfile"
    => LET ls == TextLines(outfile)
           n  == Len(input_dict)
       IN  /\ Len(MarkerLines) = n + 1
           /\ \A k \in 1..n : MarkerLines[k] = <<"$">> \o input_dict[k].name
           /\ MarkerLines[n + 1] = <<"$", "e", "n", "d">>
           /\ Nth(MarkerPlaces, n + 1) = Len(ls)
           /\ \A k \in 1..n :
                 Unlines(SubSeq(ls, Nth(MarkerPlaces, k) + 1,
                                Nth(MarkerPlaces, k + 1) - 1))
                 = input_dict[k].text
           /\ {Tail(MarkerLines[k]) : k \in 1..n} = inserted
           /\ Cardinality(inserted) = n

\* C3's case: a deck of at least two blocks was written out.
C3_Witness ==
    /\ call.op = "write_inputfile"
    /\ Len(input_dict) >= 2
    /\ Len(outfile) > 0

Builders ==
    {"title", "datacheck", "symmetric", "mach", "cases", "anglesofattack",
     "yawangle", "referencedata", "printout", "points",
     "trailingwakenetworks", "flowfieldproperties",
     "xyzcoordinatesofoffbodypoints"}

\* the deck holds a block made by an earlier POINTS (or TRAILING) call
HasBlockOf(op, d) ==
    \E i \in 1..Len(d) :
        \/ op = "points" /\ StartsWith(d[i].name, <<"P", "O", "I", "N", "T",
                "S", " ", "k", "t", "=">>)
        \/ op = "trailingwakenetworks"
             /\ StartsWith(d[i].name, <<"T", "R", "A", "I", "L", "I", "N",
                     "G", " ", "m", "a", "t", "c", "h", "w", "=">>)

\* C4 as claimed: a builder invoked a second or later time, whatever its
\* arguments (points with another kt, trailingwakenetworks with another
\* matchw), leaves the number and the order of the blocks unchanged.
C4_RepeatedCallKeepsBlocks ==
    [][(call'.op \in Builders /\ ~call'.raised
          /\ (\/ HasKey(input_dict, call'.key)
              \/ HasBlockOf(call'.op, input_dict)))
        => Names(input_dict') = Names(input_dict)]_vars

\* C4 as amended: a builder call that returns and whose key is already in
\* the deck (every builder has one fixed key, but points whose key is
\* "POINTS kt=" + str(kt) and trailingwakenetworks whose key is
\* "TRAILING matchw=" + str(matchw)) writes its rendering over that block,
\* in place: the number and order of the blocks and every other block are
\* unchanged.  A call whose key is new adds its block at the end.
C4_SameKeyOverwritesInPlace ==
    [][(call'.op \in Builders /\ ~call'.raised)
        => IF HasKey(input_dict, call'.key)
           THEN /\ Names(input_dict') = Names(input_dict)
                /\ \A i \in 1..Len(input_dict) :
                      input_dict'[i].text =
                          IF input_dict[i].name = call'.key
                          THEN call'.text ELSE input_dict[i].text
           ELSE input_dict' = Append(input_dict, [name |-> call'.key,
                                                  text |-> call'.text])
       ]_vars

\* C4's case: MACH NUMBER, the first of two or more blocks, was just written
\* over by the third call.
C4_Witness ==
    /\ call.op = "mach"
    /\ ncalls = 3
    /\ Len(input_dict) >= 2
    /\ input_dict[1].name = call.key
    /\ input_dict[1].text = call.text

-----------------------------------------------------------------------------
(* The parsers.                                                            *)

\* the places in a file of the lines equal to a given line
LinesEqual(lines, line) == {i \in 1..Len(lines) : lines[i] = line}

\* C5: when the report holds the begin marker line and the end marker line
\* of the requested section, wherever they sit relative to each other and
\* to the markers of sections whose names start with the same text,
\* _get_block returns exactly the lines strictly between the two.  (Stated
\* for a report that holds each of the two marker lines once, the begin
\* marker first, and no marker of another section between them.)
C5_BlockIsBetweenItsMarkers ==
    (pc = "done" /\ arg.fn = "_get_block"
        /\ Cardinality(LinesEqual(arg.a, <<"0", "*", "b", "*", "o", "f", "f",
                "-", "b", "o", "d", "y", "\n">>)) = 1
        /\ Cardinality(LinesEqual(arg.a, <<"0", "*", "e", "*", "o", "f", "f",
                "-", "b", "o", "d", "y", "\n">>)) = 1
        /\ Min(LinesEqual(arg.a, <<"0", "*", "b", "*", "o", "f", "f", "-",
                "b", "o", "d", "y", "\n">>))
             < Min(LinesEqual(arg.a, <<"0", "*", "e", "*", "o", "f", "f",
                     "-", "b", "o", "d", "y", "\n">>))
        /\ \A i \in 1..Len(arg.a) :
              (/\ Min(LinesEqual(arg.a, <<"0", "*", "b", "*", "o", "f", "f",
                      "-", "b", "o", "d", "y", "\n">>)) < i
               /\ i < Min(LinesEqual(arg.a, <<"0", "*", "e", "*", "o", "f",
                       "f", "-", "b", "o", "d", "y", "\n">>)))
              => ~Contains(arg.a[i], <<"0", "*">>))
    => LET b == Min(LinesEqual(arg.a, <<"0", "*", "b", "*", "o", "f", "f",
            "-", "b", "o", "d", "y", "\n">>))
           e == Min(LinesEqual(arg.a, <<"0", "*", "e", "*", "o", "f", "f",
                   "-", "b", "o", "d", "y", "\n">>))
       IN  ret = Return(SubSeq(arg.a, b + 1, e - 1))

\* the first run of characters other than whitespace of a line that has one
FirstToken(line) ==
    LET inner == {i \in 1..Len(line) : line[i] \notin Whitespace}
        first == Min(inner)
        last  == Max({j \in first..Len(line) :
                        \A k \in first..j : line[k] \notin Whitespace})
    IN  SubSeq(line, first, last)

HasToken(line) == \E i \in 1..Len(line) : line[i] \notin Whitespace

IsContextLine(line) ==
    LET t == strip(line)
        c == Places(t, "c")
    IN  /\ Cardinality(c) = 1
        /\ t[1] = "n"
        /\ AllDigits(SubSeq(t, 2, Min(c) - 1))
        /\ AllDigits(SubSeq(t, Min(c) + 1, Len(t)))

ContextNetwork(line) ==
    LET t == strip(line) IN Decimal(SubSeq(t, 2, Min(Places(t, "c")) - 1))

ContextColumn(line) ==
    LET t == strip(line) IN Decimal(SubSeq(t, Min(Places(t, "c")) + 1, Len(t)))

\* a line that is no context line, no end-of-file marker, no row header
IsDataRow(line) ==
    /\ ~IsContextLine(line)
    /\ ~StartsWith(line, <<"*", "e", "o", "f">>)
    /\ ~StartsWith(line, <<" ", "i", "r", "o", "w">>)

\* the tags <<network, column, row>> the data rows among the lines at the
\* places in S should get, in file order; (0, 0) is the context before the
\* first context line at a place in S
ExpectedTags(lines, S) ==
    LET rows == {i \in S : IsDataRow(lines[i])}
        context(i) ==
            LET before == {j \in S : j < i /\ IsContextLine(lines[j])}
            IN  IF before = {} THEN <<0, 0>>
                ELSE <<ContextNetwork(lines[Max(before)]),
                       ContextColumn(lines[Max(before)])>>
    IN  [k \in 1..Cardinality(rows) |->
            LET i == Nth(rows, k)
            IN  context(i) \o <<Decimal(FirstToken(lines[i]))>>]

Tags(data) == [k \in 1..Len(data) |-> SubSeq(data[k], 1, 3)]

\* every data row at a place in S starts with a run of digits and follows a
\* context line at a place in S
RowsWellFormed(lines, S) ==
    \A i \in S : IsDataRow(lines[i])
        => /\ HasToken(lines[i])
           /\ AllDigits(FirstToken(lines[i]))
           /\ \E j \in S : j < i /\ IsContextLine(lines[j])

\* C6 as claimed: of every sequence of lines given to parse_agps, each data
\* row becomes exactly one sample, tagged with the network and column of
\* the most recent context line before it and with its own first token as
\* the row.
C6_EveryDataRowIsTagged ==
    (pc = "done" /\ arg.fn = "parse_agps"
        /\ RowsWellFormed(arg.a, 1..Len(arg.a)))
    => (ret.ok /\ Tags(ret.v) = ExpectedTags(arg.a, 1..Len(arg.a)))

\* C6 as amended: parse_agps passes over the first six lines of the file
\* unread.  When it returns, each data row after them has become exactly
\* one sample, tagged with the network and column of the most recent
\* context line between the sixth line and the row ((0, 0) when there is
\* none) and with its own first token as the row; the context persists
\* until the next context line, and the skipped lines change nothing.
C6_DataRowsAfterHeaderAreTagged ==
    (pc = "done" /\ arg.fn = "parse_agps" /\ ret.ok)
    => Tags(ret.v) = ExpectedTags(arg.a, (HeaderLines + 1)..Len(arg.a))

\* C6's case: a context line after the header and two data rows after it,
\* both tagged with its network and column.
C6_Witness ==
    /\ pc = "done"
    /\ arg.fn = "parse_agps"
    /\ ret.ok
    /\ Len(ret.v) = 2
    /\ SubSeq(ret.v[1], 1, 3) = <<1, 2, 1>>
    /\ SubSeq(ret.v[2], 1, 3) = <<1, 2, 2>>

\* the samples of network n, in the order given
SamplesOf(data, n) == SelectSeq(data, LAMBDA p : p[1] = n)

\* C7: every network that has samples is processed, whatever the ids of the
\* other networks: its grid has the shape (greatest row id, greatest column
\* id) of its own samples, holds each sample's values at cell (row - 1,
\* column - 1), counted from 1 here, and 0 in the cells no sample addresses.
C7_EveryNetworkGetsItsGrid ==
    (pc = "done" /\ arg.fn = "generate_vtk")
    => \A n \in {arg.a[k][1] : k \in 1..Len(arg.a)} :
          LET mine == SamplesOf(arg.a, n)
              rows == Max({mine[k][3] : k \in 1..Len(mine)})
              cols == Max({mine[k][2] : k \in 1..Len(mine)})
          IN  \E g \in 1..Len(ret.v) :
                 /\ ret.v[g].network = n
                 /\ ret.v[g].n_rows = rows
                 /\ ret.v[g].n_columns = cols
                 /\ \A i \in 1..rows, j \in 1..cols :
                       LET hits == {k \in 1..Len(mine) :
                                       mine[k][3] = i /\ mine[k][2] = j}
                       IN  <<ret.v[g].X[i, j], ret.v[g].Y[i, j],
                             ret.v[g].Z[i, j], ret.v[g].CP[i, j]>>
                           = IF hits = {} THEN <<0, 0, 0, 0>>
                             ELSE SubSeq(mine[Max(hits)], 4, 7)

=============================================================================
